---- MODULE Spec2Model ----
(***************************************************************************)
(* Max-pooling-with-index operator (paddle/operators/pool_with_index_op.cc) *)
(* Shape inference of the forward and the gradient operator, and the        *)
(* forward / backward kernels that the operator registers.                  *)
(*                                                                         *)
(* Sequences are 1-based: the C++ element v[i] is v[i+1] here, so the       *)
(* spatial dimension in_x_dims[i + 2] of the C++ loop index i is            *)
(* in_x_dims[j + 2] for j = i + 1 in 1..K.                                  *)
(***************************************************************************)
EXTENDS Integers, Sequences, FiniteSets, TLC

\* ------------------------------------------------------------------ bounds
MaxDim == 2
MaxK == 2
MaxStride == 2
MaxPad == 1
MaxLen == 3
MaxMissing == 1
MaxElems == 4
MaxOutElems == 2
MaxVal == 1

VARIABLES
  present,    \* names of the variables the InferShapeContext has (HasInput / HasOutput)
  var_dim,    \* name -> dimensions of the variable, << >> while no shape is set
  attrs,      \* the operator's attributes: ksize, strides, paddings, globalPooling
  fwd,        \* outcome of MaxPoolWithIndexOp::InferShape
  grad,       \* outcome of MaxPoolWithIndexOpGrad::InferShape
  X_data,     \* the tensors: <<n, c>> -> (flat offset in the slice -> element)
  Out_data,
  Mask_data,
  dOut_data,
  dX_data,
  kern,       \* outcome of the forward and of the backward kernel
  todo        \* output positions <<n, c, o>> the backward kernel has yet to visit

shapeVars == <<present, var_dim, attrs, fwd, grad>>
tensorVars == <<X_data, Out_data, Mask_data, dOut_data, dX_data, kern, todo>>
vars == <<present, var_dim, attrs, fwd, grad,
          X_data, Out_data, Mask_data, dOut_data, dX_data, kern, todo>>

VarNames == {"X", "Out", "Mask", "X@GRAD"}

\* ----------------------------------------------------------- integer helpers
Abs(a) == IF a < 0 THEN -a ELSE a

\* C++ int division for a non-zero divisor: the quotient is truncated toward zero
CDiv(a, b) ==
  IF (a >= 0) = (b > 0) THEN Abs(a) \div Abs(b) ELSE -(Abs(a) \div Abs(b))

\* the quotient rounded toward minus infinity instead
FloorDiv(a, b) == IF b > 0 THEN a \div b ELSE (-a) \div (-b)

OutputSizeMaxPool_Floor(input_size, filter_size, padding, stride) ==
  FloorDiv(input_size - filter_size + 2 * padding, stride) + 1

OutputSizeMaxPool(input_size, filter_size, padding, stride) ==
  CDiv(input_size - filter_size + 2 * padding, stride) + 1


\* ------------------------------------------------- MaxPoolWithIndexOp::InferShape
\* What a run of InferShape can end in: "ok" (returned), "error" (a
\* PADDLE_ENFORCE threw EnforceNotMet) or "crash" (the process was killed by a
\* signal raised by undefined behaviour).
\* Undefined behaviour either traps or lets the run go on.
UBOutcomes == {"trap", "continue"}

Unset == << >>

RankSupported_Upto5(rank) == rank = 3 \/ rank = 4 \/ rank = 5

\* in_x_dims.size() == 4 || in_x_dims.size() == 5
RankSupported(rank) == rank = 4 \/ rank = 5

\* std::vector<int>::resize(n): cut, or fill up with value-initialised ints
Resize(v, n) == [i \in 1..n |-> IF i <= Len(v) THEN v[i] ELSE 0]

\* ksize after the globalPooling branch: resized to the spatial rank, every
\* element overwritten with the input's spatial dimension
GlobalKsize(in_x_dims, ksize) ==
  LET r == Resize(ksize, Len(in_x_dims) - 2)
  IN  [i \in 1..Len(r) |-> in_x_dims[i + 2]]

GlobalPaddings_Keep(in_x_dims, paddings) == paddings

\* paddings after the globalPooling branch: paddings[i] = 0 for every i below
\* the spatial rank; the vector is not resized, so only the elements it has
\* are changed
GlobalPaddings(in_x_dims, paddings) ==
  [i \in 1..Len(paddings) |-> IF i <= Len(in_x_dims) - 2 THEN 0 ELSE paddings[i]]

\* the (0-based) indices at which the globalPooling loop writes paddings[i]
\* although paddings has no such element
GlobalPaddingsOutOfRange(in_x_dims, paddings) ==
  {i \in 0..(Len(in_x_dims) - 3) : i >= Len(paddings)}

\* the (0-based) axes whose stride is 0: OutputSizeMaxPool divides by it
ZeroStrides(strides) == {i \in 0..(Len(strides) - 1) : strides[i + 1] = 0}

\* output_shape: batch and channel, then one OutputSizeMaxPool per axis.
\* An axis with stride 0 is reached only when the division by zero did not
\* trap; the quotient the hardware then delivers is 0.  The dimensions are
\* far below 2^31, so their conversion from int64_t to int keeps them.
OutputShape(in_x_dims, ksize, strides, paddings) ==
  <<in_x_dims[1], in_x_dims[2]>> \o
  [i \in 1..Len(ksize) |->
     IF strides[i] = 0 THEN 0 + 1
     ELSE OutputSizeMaxPool(in_x_dims[i + 2], ksize[i], paddings[i], strides[i])]

FwdResult(status, msg, ksize, paddings, oob, divzero, output_shape) ==
  [status |-> status, msg |-> msg, ksize |-> ksize, paddings |-> paddings,
   oob |-> oob, divzero |-> divzero, output_shape |-> output_shape]

\* The whole of InferShape, statement by statement; ub is the outcome of
\* undefined behaviour, should the run meet any.
MaxPoolWithIndexOp_InferShape(ctx, in_x_dims, a, ub) ==
  LET Fail(msg, k, p, oob) == FwdResult("error", msg, k, p, oob, {}, Unset)
      rank == Len(in_x_dims)
      ksize == IF a.globalPooling THEN GlobalKsize(in_x_dims, a.ksize) ELSE a.ksize
      paddings == IF a.globalPooling THEN GlobalPaddings(in_x_dims, a.paddings)
                  ELSE a.paddings
      oob == IF a.globalPooling THEN GlobalPaddingsOutOfRange(in_x_dims, a.paddings)
             ELSE {}
      strides == a.strides
  IN  IF "X" \notin ctx
        THEN Fail("X(Input) of Pooling should not be null.", a.ksize, a.paddings, {})
      ELSE IF "Out" \notin ctx
        THEN Fail("Out(Output) of Pooling should not be null.", a.ksize, a.paddings, {})
      ELSE IF "Mask" \notin ctx
        THEN Fail("Mask(Output) of Pooling should not be null.", a.ksize, a.paddings, {})
      ELSE IF ~RankSupported(rank)
        THEN Fail("Pooling intput should be 4-D or 5-D tensor.", a.ksize, a.paddings, {})
      ELSE IF oob # {} /\ ub = "trap"
        THEN FwdResult("crash", "SIGSEGV", ksize, paddings, oob, {}, Unset)
      ELSE IF rank - Len(ksize) # 2
        THEN Fail("Input size and pooling size should be consistent.", ksize, paddings, oob)
      ELSE IF Len(ksize) # Len(strides)
        THEN Fail("Strides size and pooling size should be the same.", ksize, paddings, oob)
      ELSE IF Len(ksize) # Len(paddings)
        THEN Fail("Paddings size and pooling size should be the same.", ksize, paddings, oob)
      ELSE IF ZeroStrides(strides) # {} /\ ub = "trap"
        THEN FwdResult("crash", "SIGFPE", ksize, paddings, oob, ZeroStrides(strides), Unset)
      ELSE FwdResult("ok", "", ksize, paddings, oob, ZeroStrides(strides),
                     OutputShape(in_x_dims, ksize, strides, paddings))

SetOutputDims_MaskAsInput(dim, output_shape) ==
  [dim EXCEPT !["Out"] = output_shape, !["Mask"] = dim["X"]]

\* ctx->SetOutputDim("Out", ...); ctx->SetOutputDim("Mask", ...)
SetOutputDims(dim, output_shape) ==
  [dim EXCEPT !["Out"] = output_shape, !["Mask"] = output_shape]

\* --------------------------------------------- MaxPoolWithIndexOpGrad::InferShape
GradResult(status, msg) == [status |-> status, msg |-> msg]

MaxPoolWithIndexOpGrad_Check(ctx) ==
  IF "Mask" \notin ctx THEN GradResult("error", "Input(Mask) must not be null.")
  ELSE IF "X" \notin ctx THEN GradResult("error", "Input(X) must not be null.")
  ELSE IF "X@GRAD" \notin ctx
    THEN GradResult("error", "Input(X@GRAD) should not be null.")
  ELSE GradResult("ok", "")

SetGradDim_FromMask(dim) == [dim EXCEPT !["X@GRAD"] = dim["Mask"]]

\* ctx->SetOutputDim(GradVarName("X"), ctx->GetInputDim("X"))
SetGradDim(dim) == [dim EXCEPT !["X@GRAD"] = dim["X"]]

\* ------------------------------------------------------------- tensor layout
RECURSIVE Prod(_, _)
\* dims[from] * ... * dims[Len(dims)]
Prod(dims, from) == IF from > Len(dims) THEN 1 ELSE dims[from] * Prod(dims, from + 1)

\* the spatial dimensions of an NCHW / NCDHW shape
Spatial(dims) == [i \in 1..(Len(dims) - 2) |-> dims[i + 2]]

\* the (n, c) slices of a tensor of that shape
Slices(dims) == (0..(dims[1] - 1)) \X (0..(dims[2] - 1))

\* the flat offsets of one slice
Offsets(dims) == 0..(Prod(Spatial(dims), 1) - 1)

RECURSIVE EncodeFrom(_, _, _, _)
EncodeFrom(coord, sp, i, acc) ==
  IF i > Len(sp) THEN acc ELSE EncodeFrom(coord, sp, i + 1, acc * sp[i] + coord[i])

\* row-major flat offset of a coordinate: h*W + w, (d*H + h)*W + w
Encode(coord, sp) == EncodeFrom(coord, sp, 1, 0)

\* the coordinate of a flat offset
Decode(idx, sp) == [i \in 1..Len(sp) |-> (idx \div Prod(sp, i + 1)) % sp[i]]

Min(a, b) == IF a < b THEN a ELSE b
Max(a, b) == IF a > b THEN a ELSE b

\* -------------------------------------------------------------- ForwardKernel
\* start[i] = o[i]*stride[i] - padding[i]
WindowStart(o, strides, paddings) ==
  [i \in 1..Len(o) |-> o[i] * strides[i] - paddings[i]]

\* the window clipped to [0, inDim): lower ends
WindowLo(o, strides, paddings) ==
  [i \in 1..Len(o) |-> Max(WindowStart(o, strides, paddings)[i], 0)]

\* the window clipped to [0, inDim): upper ends (exclusive)
WindowHi(o, sp, ksize, strides, paddings) ==
  [i \in 1..Len(o) |-> Min(WindowStart(o, strides, paddings)[i] + ksize[i], sp[i])]

RECURSIVE WindowScan(_, _, _)
\* the window's positions (axes i..K of them) in the order the nested loops
\* visit them: outer axis first, each axis ascending
WindowScan(lo, hi, i) ==
  IF i > Len(lo) THEN << << >> >>
  ELSE LET rest == WindowScan(lo, hi, i + 1)
           RECURSIVE Loop(_)
           Loop(v) == IF v >= hi[i] THEN << >>
                      ELSE [j \in 1..Len(rest) |-> <<v>> \o rest[j]] \o Loop(v + 1)
       IN  Loop(lo[i])

RECURSIVE TrackMax_LastWins(_, _, _, _, _)
TrackMax_LastWins(x, sp, scan, j, best) ==
  IF j > Len(scan) THEN best
  ELSE TrackMax_LastWins(x, sp, scan, j + 1,
                IF best = << >> \/ x[Encode(scan[j], sp)] >= x[Encode(best, sp)]
                THEN scan[j] ELSE best)

RECURSIVE TrackMax(_, _, _, _, _)
\* the position of the maximum seen in scan[j..]; best is the position kept so
\* far (<< >>: none yet); an equal element does not replace it
TrackMax(x, sp, scan, j, best) ==
  IF j > Len(scan) THEN best
  ELSE TrackMax(x, sp, scan, j + 1,
                IF best = << >> \/ x[Encode(scan[j], sp)] > x[Encode(best, sp)]
                THEN scan[j] ELSE best)

\* one output element: the window's maximum and the flat offset of its position
PoolWindow(x, sp, ksize, strides, paddings, o) ==
  LET scan == WindowScan(WindowLo(o, strides, paddings),
                         WindowHi(o, sp, ksize, strides, paddings), 1)
      best == TrackMax(x, sp, scan, 1, << >>)
  IN  IF scan = << >> THEN [empty |-> TRUE, value |-> 0, index |-> -1]
      ELSE [empty |-> FALSE, value |-> x[Encode(best, sp)], index |-> Encode(best, sp)]

\* -------------------------------------------------------------- BackwardKernel
Scatter_Assign(dx, sp, idx, g) ==
  [dx EXCEPT ![Encode(Decode(idx, sp), sp)] = g]

\* dX[decoded(idx)] += dOut
Scatter(dx, sp, idx, g) ==
  [dx EXCEPT ![Encode(Decode(idx, sp), sp)] = @ + g]

\* ------------------------------------------------------------------ actions
ForwardInferShape ==
  /\ fwd.status = "none"
  /\ \E ub \in UBOutcomes :
       LET r == MaxPoolWithIndexOp_InferShape(present, var_dim["X"], attrs, ub)
       IN  /\ fwd' = r
           /\ var_dim' = IF r.status = "ok" THEN SetOutputDims(var_dim, r.output_shape)
                          ELSE var_dim
  /\ UNCHANGED <<present, attrs, grad>>
  /\ UNCHANGED tensorVars

GradInferShape ==
  /\ grad.status = "none"
  /\ LET r == MaxPoolWithIndexOpGrad_Check(present)
     IN  /\ grad' = r
         /\ var_dim' = IF r.status = "ok" THEN SetGradDim(var_dim) ELSE var_dim
  /\ UNCHANGED <<present, attrs, fwd>>
  /\ UNCHANGED tensorVars

\* The forward kernel, run on the tensors the caller allocated with the shapes
\* InferShape set.  A window with no valid position is a configuration error.
ForwardKernel ==
  /\ fwd.status = "ok"
  /\ kern.fwd = "none"
  /\ X_data # << >>
  /\ \A i \in 1..Len(var_dim["Out"]) : var_dim["Out"][i] >= 1
  /\ LET sp == Spatial(var_dim["X"])
         osp == Spatial(var_dim["Out"])
         r(sl, q) == PoolWindow(X_data[sl], sp, fwd.ksize, attrs.strides,
                                fwd.paddings, Decode(q, osp))
     IN  IF \E sl \in Slices(var_dim["Out"]), q \in Offsets(var_dim["Out"]) : r(sl, q).empty
         THEN /\ kern' = [kern EXCEPT !.fwd = "error"]
              /\ UNCHANGED <<Out_data, Mask_data>>
         ELSE /\ kern' = [kern EXCEPT !.fwd = "ok"]
              /\ Out_data' = [sl \in Slices(var_dim["Out"]) |->
                                [q \in Offsets(var_dim["Out"]) |-> r(sl, q).value]]
              /\ Mask_data' = [sl \in Slices(var_dim["Out"]) |->
                                 [q \in Offsets(var_dim["Out"]) |-> r(sl, q).index]]
  /\ UNCHANGED <<X_data, dOut_data, dX_data, todo>>
  /\ UNCHANGED shapeVars

\* the output gradients the backward kernel is run on: all ones, and a
\* different value at every position of the tensor
OutputGradients(dims) ==
  { [sl \in Slices(dims) |-> [q \in Offsets(dims) |-> 1]],
    [sl \in Slices(dims) |->
       [q \in Offsets(dims) |->
          1 + q + Prod(Spatial(dims), 1) * (sl[1] * dims[2] + sl[2])]] }

\* The caller of the backward kernel: dOut has the shape of Out, dX the shape
\* the gradient InferShape set, and dX is filled with zeros.
AllocGrad ==
  /\ kern.fwd = "ok"
  /\ grad.status = "ok"
  /\ kern.bwd = "none"
  /\ \E g \in OutputGradients(var_dim["Out"]) : dOut_data' = g
  /\ dX_data' = [sl \in Slices(var_dim["X@GRAD"]) |->
                   [q \in Offsets(var_dim["X@GRAD"]) |-> 0]]
  /\ todo' = {<<sl[1], sl[2], q>> : sl \in Slices(var_dim["Out"]), q \in Offsets(var_dim["Out"])}
  /\ kern' = [kern EXCEPT !.bwd = "running"]
  /\ UNCHANGED <<X_data, Out_data, Mask_data>>
  /\ UNCHANGED shapeVars

\* The backward kernel at one output position; the positions are visited in
\* any order.
BackwardKernelStep ==
  /\ kern.bwd = "running"
  /\ \E t \in todo :
       LET sl == <<t[1], t[2]>>
           idx == Mask_data[sl][t[3]]
           sp == Spatial(var_dim["X"])
       IN  IF idx \notin Offsets(var_dim["X"])
           THEN /\ kern' = [kern EXCEPT !.bwd = "error"]
                /\ UNCHANGED <<dX_data, todo>>
           ELSE /\ dX_data' = [dX_data EXCEPT ![sl] = Scatter(@, sp, idx, dOut_data[sl][t[3]])]
                /\ todo' = todo \ {t}
                /\ kern' = [kern EXCEPT !.bwd = IF todo \ {t} = {} THEN "ok" ELSE "running"]
  /\ UNCHANGED <<X_data, Out_data, Mask_data, dOut_data>>
  /\ UNCHANGED shapeVars

\* ------------------------------------------------------------ initial states
Const(n, v) == [i \in 1..n |-> v]

Attrs(ksize, strides, paddings, globalPooling) ==
  [ksize |-> ksize, strides |-> strides, paddings |-> paddings,
   globalPooling |-> globalPooling]

NotRun == FwdResult("none", "", Unset, Unset, {}, {}, Unset)

Dims(in_x_dims) ==
  [v \in VarNames |-> IF v = "X" THEN in_x_dims ELSE Unset]

\* batch size and channel count of the inputs of shape inference
Batches == {<<1, 2>>, <<2, 1>>}

\* every element of v is the same
Uniform(v) == \A i \in 1..Len(v) : v[i] = v[1]

\* 2-D and 3-D operators whose attribute vectors have the spatial rank.  In
\* 2-D every element of every vector is chosen freely; in 3-D the input's
\* dimensions and the window are, and strides and paddings are the same on
\* all axes.
InitValues ==
  \E K \in {2, 3}, nc \in Batches, gp \in BOOLEAN :
  \E sp \in [1..K -> 1..MaxDim], k \in [1..K -> 1..MaxK],
     s \in [1..K -> (-1)..MaxStride], p \in [1..K -> 0..MaxPad] :
    /\ K = 3 => (Uniform(s) /\ Uniform(p))
    /\ present = VarNames
    /\ var_dim = Dims(nc \o sp)
    /\ attrs = Attrs(k, s, p, gp)

\* inputs of any rank and attribute vectors of any length (windows of 1,
\* strides of 1, the largest padding, the largest dimension); up to MaxMissing
\* variables are missing from the context
InitLengths ==
  \E K \in 1..(MaxLen + 1), nc \in Batches, gp \in BOOLEAN,
     lk \in 0..MaxLen, ls \in 0..MaxLen, lp \in 0..MaxLen,
     missing \in SUBSET VarNames :
    /\ Cardinality(missing) <= MaxMissing
    /\ present = VarNames \ missing
    /\ var_dim = Dims(nc \o Const(K, MaxDim))
    /\ attrs = Attrs(Const(lk, 1), Const(ls, 1), Const(lp, MaxPad), gp)

NoTensors ==
  /\ X_data = << >>
  /\ Out_data = << >>
  /\ Mask_data = << >>
  /\ dOut_data = << >>
  /\ dX_data = << >>
  /\ kern = [fwd |-> "none", bwd |-> "none"]
  /\ todo = {}

Init ==
  /\ InitValues \/ InitLengths
  /\ fwd = NotRun
  /\ grad = GradResult("none", "")
  /\ NoTensors

Next == ForwardInferShape \/ GradInferShape

Spec == Init /\ [][Next]_vars

\* batch size and channel count of the tensors the kernels run on
KernelBatches == {<<1, 1>>, <<1, 2>>, <<2, 1>>}

\* windows, strides and paddings of the configurations the kernels run on
KernelWindows == 1..2
KernelStrides == 1..2
KernelPaddings == 0..1

\* The operator together with its kernels: a 2-D or 3-D configuration with
\* positive strides (in 3-D the same window, stride and padding on all axes),
\* an input of at most MaxElems elements whose output has between 1 and
\* MaxOutElems elements, and the input tensor's data.  With globalPooling the
\* ksize and paddings attributes are ignored, so one choice of them (windows
\* of 1, paddings of 1) stands for all.
InitKernel ==
  /\ \E K \in {2, 3}, nc \in KernelBatches, gp \in BOOLEAN :
     \E sp \in [1..K -> 1..MaxElems], k \in [1..K -> KernelWindows],
        s \in [1..K -> KernelStrides], p \in [1..K -> KernelPaddings] :
       LET out == MaxPoolWithIndexOp_InferShape(VarNames, nc \o sp,
                                                Attrs(k, s, p, gp), "trap").output_shape
       IN  /\ K = 3 => (Uniform(k) /\ Uniform(s) /\ Uniform(p))
           /\ gp => (k = Const(K, 1) /\ p = Const(K, 1))
           /\ Prod(nc \o sp, 1) <= MaxElems
           /\ \A i \in 1..Len(out) : out[i] >= 1
           /\ Prod(out, 1) <= MaxOutElems
           /\ present = VarNames
           /\ var_dim = Dims(nc \o sp)
           /\ attrs = Attrs(k, s, p, gp)
           /\ X_data \in [Slices(nc \o sp) -> [Offsets(nc \o sp) -> 0..MaxVal]]
  /\ fwd = NotRun
  /\ grad = GradResult("none", "")
  /\ Out_data = << >>
  /\ Mask_data = << >>
  /\ dOut_data = << >>
  /\ dX_data = << >>
  /\ kern = [fwd |-> "none", bwd |-> "none"]
  /\ todo = {}

NextKernel ==
  \/ ForwardInferShape
  \/ GradInferShape
  \/ ForwardKernel
  \/ AllocGrad
  \/ BackwardKernelStep

SpecKernel == InitKernel /\ [][NextKernel]_vars

\* ================================================================== claims
in_x_dims == var_dim["X"]
AllSet(S) == \A v \in S : v \in present
FwdDone == fwd.status # "none"
\* the dividend of axis i (1-based) as the caller supplied it
Numerator(i) == in_x_dims[i + 2] - attrs.ksize[i] + 2 * attrs.paddings[i]
\* q is a / b truncated toward zero: the remainder is smaller than the divisor
\* and has the sign of the dividend
IsTruncatedQuotient(q, a, b) ==
  LET r == a - q * b IN Abs(r) < Abs(b) /\ r * a >= 0

\* C1: when the forward InferShape succeeds with globalPooling = false on an
\* input (N, C, in_1..in_K), Out is (N, C, out_1..out_K) with K = rank - 2 and
\* out_i - 1 the quotient of in_i - ksize_i + 2*padding_i by stride_i truncated
\* toward zero (on every axis whose stride is not 0, where the quotient exists).
C1_OutShapeFormula ==
  (fwd.status = "ok" /\ ~attrs.globalPooling) =>
    /\ Len(var_dim["Out"]) = Len(in_x_dims)
    /\ Len(attrs.ksize) = Len(in_x_dims) - 2
    /\ var_dim["Out"][1] = in_x_dims[1]
    /\ var_dim["Out"][2] = in_x_dims[2]
    /\ \A i \in 1..(Len(in_x_dims) - 2) :
         attrs.strides[i] # 0 =>
           IsTruncatedQuotient(var_dim["Out"][i + 2] - 1, Numerator(i), attrs.strides[i])

\* a successful 3-D run in which truncation and rounding down differ on an
\* axis (negative dividend, stride 2) and another axis has a positive dividend
C1_Witness ==
  /\ fwd.status = "ok" /\ ~attrs.globalPooling /\ Len(in_x_dims) = 5
  /\ in_x_dims[1] # in_x_dims[2]
  /\ \E i \in 1..3 : Numerator(i) < 0 /\ attrs.strides[i] = 2
  /\ \E i \in 1..3 : Numerator(i) > 0

\* C2: when the forward InferShape succeeds with globalPooling = true, every
\* spatial dimension of Out and of Mask is 1, whatever ksize (values and
\* length) and paddings values were supplied; the window has become the
\* input's spatial dimensions and every padding 0.
C2_GlobalPoolingOnes ==
  (fwd.status = "ok" /\ attrs.globalPooling) =>
    /\ Len(var_dim["Out"]) = Len(in_x_dims)
    /\ Len(var_dim["Mask"]) = Len(in_x_dims)
    /\ \A i \in 3..Len(in_x_dims) : var_dim["Out"][i] = 1 /\ var_dim["Mask"][i] = 1
    /\ fwd.ksize = Spatial(in_x_dims)
    /\ \A i \in 1..Len(fwd.paddings) : fwd.paddings[i] = 0

\* a successful global pooling whose supplied ksize has the wrong length and
\* values other than the input's, and whose supplied paddings are not 0
C2_Witness ==
  /\ fwd.status = "ok" /\ attrs.globalPooling
  /\ Len(attrs.ksize) # Len(in_x_dims) - 2
  /\ \E i \in 1..Len(attrs.ksize) : attrs.ksize[i] # in_x_dims[i + 2]
  /\ \E i \in 1..Len(attrs.paddings) : attrs.paddings[i] # 0
  /\ \E i \in 3..Len(in_x_dims) : in_x_dims[i] > 1

\* C3: every Out shape the forward InferShape sets has all spatial dimensions
\* >= 1 (a computed dimension <= 0 is a fatal configuration error).
C3_PositiveOutDims ==
  fwd.status = "ok" => \A i \in 3..Len(var_dim["Out"]) : var_dim["Out"][i] >= 1

\* C4 as claimed: the forward InferShape ends in a configuration error whenever
\* the rank is not 4 or 5, and whenever the rank differs from the supplied
\* |ksize| + 2, for both values of globalPooling (stated of the runs that
\* write no element out of range, so that it fails on its own account and
\* not through the out-of-range write of C5).
C4_RankErrorsAnyPooling ==
  (FwdDone /\ fwd.oob = {}) =>
    ((~(Len(in_x_dims) \in {4, 5}) \/ Len(in_x_dims) # Len(attrs.ksize) + 2)
       => fwd.status = "error")

\* C4 amended: the forward InferShape ends in a configuration error whenever
\* the rank is not 4 or 5 (both values of globalPooling) and, with
\* globalPooling = false, whenever the rank differs from the supplied
\* |ksize| + 2.
C4_RankErrors ==
  FwdDone =>
    ((~(Len(in_x_dims) \in {4, 5})
        \/ (~attrs.globalPooling /\ Len(in_x_dims) # Len(attrs.ksize) + 2))
       => fwd.status = "error")

\* a run without global pooling that got past the rank check and was stopped
\* by the check of the rank against |ksize|
C4_Witness ==
  /\ fwd.status = "error" /\ ~attrs.globalPooling
  /\ Len(in_x_dims) \in {4, 5}
  /\ Len(in_x_dims) # Len(attrs.ksize) + 2
  /\ fwd.msg = "Input size and pooling size should be consistent."

\* C5: whenever |strides| or |paddings| differs from the number of spatial
\* axes, the forward InferShape ends in a configuration error, and no run of
\* it reads or writes an element of paddings beyond the vector's length.
C5_LengthsCheckedBeforeAccess ==
  FwdDone =>
    /\ (Len(attrs.strides) # Len(fwd.ksize) \/ Len(attrs.paddings) # Len(fwd.ksize))
         => fwd.status = "error"
    /\ fwd.oob = {}

\* C6: Mask always has the shape of Out: none while Out has none, and after a
\* successful forward InferShape the shape that Out got.
C6_MaskShapeEqualsOut ==
  /\ var_dim["Mask"] = var_dim["Out"]
  /\ fwd.status = "ok" => var_dim["Out"] # Unset
  /\ fwd.status # "ok" => var_dim["Out"] = Unset

\* a successful 3-D run with global pooling whose output shape differs from
\* the input's
C6_Witness ==
  /\ fwd.status = "ok" /\ attrs.globalPooling /\ Len(in_x_dims) = 5
  /\ var_dim["Mask"] # Unset /\ var_dim["Mask"] # in_x_dims

\* C7: the gradient InferShape sets the shape of dX to the shape of X, and
\* only when Mask, X and dX are all present; with any of them missing it ends
\* in a configuration error and dX has no shape.
C7_GradShape ==
  /\ grad.status = "ok" =>
       AllSet({"Mask", "X", "X@GRAD"}) /\ var_dim["X@GRAD"] = in_x_dims
  /\ (grad.status # "none" /\ ~AllSet({"Mask", "X", "X@GRAD"})) =>
       grad.status = "error"
  /\ grad.status # "ok" => var_dim["X@GRAD"] = Unset

\* both InferShape have succeeded and dX has the shape of X, which is not the
\* shape of Mask
C7_Witness ==
  /\ grad.status = "ok" /\ fwd.status = "ok"
  /\ var_dim["X@GRAD"] = in_x_dims
  /\ var_dim["Mask"] # in_x_dims

\* C8: if X, Out or Mask is missing, or the rank or a length is wrong, the
\* forward InferShape ends in a configuration error with neither Out nor Mask
\* set; Out is never set without Mask.
C8_FailFast ==
  FwdDone =>
    /\ (\/ ~AllSet({"X", "Out", "Mask"})
        \/ ~(Len(in_x_dims) \in {4, 5})
        \/ Len(in_x_dims) # Len(fwd.ksize) + 2
        \/ Len(fwd.ksize) # Len(attrs.strides)
        \/ Len(fwd.ksize) # Len(attrs.paddings))
         => (fwd.status = "error" /\ var_dim["Out"] = Unset /\ var_dim["Mask"] = Unset)
    /\ (var_dim["Out"] = Unset) <=> (var_dim["Mask"] = Unset)

\* ----------------------------------------------------------- kernel claims
\* h*W + w for two spatial axes, (d*H + h)*W + w for three
FlatOffset(coord, sp) ==
  IF Len(sp) = 2 THEN coord[1] * sp[2] + coord[2]
  ELSE (coord[1] * sp[2] + coord[2]) * sp[3] + coord[3]

\* a comes before b in the outer-to-inner ascending scan
ScannedBefore(a, b) ==
  \E i \in 1..Len(a) : a[i] < b[i] /\ \A j \in 1..(i - 1) : a[j] = b[j]

\* the coordinate that a flat offset of a slice stands for
CoordOf(p, sp) ==
  IF Len(sp) = 2 THEN <<p \div sp[2], p % sp[2]>>
  ELSE <<p \div (sp[2] * sp[3]), (p \div sp[3]) % sp[2], p % sp[3]>>

\* the input coordinates inside the window of output coordinate o, clipped to
\* the input
ClippedWindow(o) ==
  LET sp == Spatial(in_x_dims)
  IN  {c \in {CoordOf(p, sp) : p \in 0..(Prod(sp, 1) - 1)} :
         \A i \in 1..Len(sp) :
           /\ c[i] >= o[i] * attrs.strides[i] - fwd.paddings[i]
           /\ c[i] < o[i] * attrs.strides[i] - fwd.paddings[i] + fwd.ksize[i]}

\* m is the first position of the scan of window W that holds W's maximum v
FirstMaximum(m, v, W, x, sp) ==
  /\ x[FlatOffset(m, sp)] = v
  /\ \A c \in W :
       /\ x[FlatOffset(c, sp)] <= v
       /\ ScannedBefore(c, m) => x[FlatOffset(c, sp)] < v

C9_At(sl, q, sp, W) ==
  W # {} =>
    /\ Mask_data[sl][q] \in 0..(Prod(sp, 1) - 1)
    /\ \E m \in W :
         /\ Mask_data[sl][q] = FlatOffset(m, sp)
         /\ FirstMaximum(m, Out_data[sl][q], W, X_data[sl], sp)

C9_Postcondition ==
  kern.fwd = "ok" =>
    \A sl \in Slices(var_dim["Out"]), q \in Offsets(var_dim["Out"]) :
      C9_At(sl, q, Spatial(in_x_dims),
            ClippedWindow(CoordOf(q, Spatial(var_dim["Out"]))))

\* C9: after the forward kernel, for every (n, c, o) with a non-empty clipped
\* window, Out[n,c,o] is the maximum of X over the window and Mask[n,c,o] is
\* the row-major flat offset, inside the slice's range, of the first position
\* of the scan that attains it; no step changes X.
C9_ForwardKernel == [](C9_Postcondition) /\ [][X_data' = X_data]_vars

\* the forward kernel has run over a window that is clipped by the padding and
\* holds its maximum at two positions in different rows, and over a window
\* that holds a smaller element than its maximum
C9_Witness ==
  /\ kern.fwd = "ok"
  /\ \E sl \in Slices(var_dim["Out"]), q \in Offsets(var_dim["Out"]) :
       LET sp == Spatial(in_x_dims)
           o == CoordOf(q, Spatial(var_dim["Out"]))
           W == ClippedWindow(o)
       IN  /\ \E i \in 1..Len(sp) : o[i] * attrs.strides[i] - fwd.paddings[i] < 0
           /\ \E a \in W, b \in W :
                /\ a[Len(sp) - 1] # b[Len(sp) - 1]
                /\ X_data[sl][FlatOffset(a, sp)] = Out_data[sl][q]
                /\ X_data[sl][FlatOffset(b, sp)] = Out_data[sl][q]
  /\ \E sl \in Slices(var_dim["Out"]), q \in Offsets(var_dim["Out"]) :
       \E c \in ClippedWindow(CoordOf(q, Spatial(var_dim["Out"]))) :
         X_data[sl][FlatOffset(c, Spatial(in_x_dims))] < Out_data[sl][q]

RECURSIVE SumOver(_, _)
SumOver(S, f) ==
  IF S = {} THEN 0
  ELSE LET e == CHOOSE e \in S : TRUE IN f[e] + SumOver(S \ {e}, f)

\* C10: while and after the backward kernel runs over a Mask of the forward
\* kernel, whatever the order of the positions, every dX[n,c,p] is the sum of
\* dOut[n,c,o] over the visited o with Mask[n,c,o] = p (0 where there is none);
\* once all are visited, that is over all o, and dX and dOut have the same total.
C10_BackwardKernel ==
  kern.bwd \in {"running", "ok"} =>
    /\ \A sl \in Slices(in_x_dims), p \in Offsets(in_x_dims) :
         dX_data[sl][p] =
           SumOver({q \in Offsets(var_dim["Out"]) :
                      <<sl[1], sl[2], q>> \notin todo /\ Mask_data[sl][q] = p},
                   dOut_data[sl])
    /\ kern.bwd = "ok" =>
         /\ todo = {}
         /\ \A sl \in Slices(in_x_dims) :
              SumOver(Offsets(in_x_dims), dX_data[sl])
                = SumOver(Offsets(var_dim["Out"]), dOut_data[sl])

\* the backward kernel has finished, two output positions of overlapping
\* windows point at the same input element, and another element got nothing
C10_Witness ==
  /\ kern.bwd = "ok"
  /\ \E sl \in Slices(in_x_dims) :
       /\ \E q1 \in Offsets(var_dim["Out"]), q2 \in Offsets(var_dim["Out"]) :
            /\ q1 # q2
            /\ Mask_data[sl][q1] = Mask_data[sl][q2]
            /\ dOut_data[sl][q1] # dOut_data[sl][q2]
       /\ \E p \in Offsets(in_x_dims) : dX_data[sl][p] = 0

====
